---------------------------- MODULE Spec2Model ----------------------------
(* Model of github.com/ungerik/go-command: the two-level command registry *)
(* (StringArgsDispatcher, SuperStringArgsDispatcher) and the gorillamux    *)
(* HTTP adapter (CommandHandler and its variants).                         *)
(*                                                                         *)
(* A command name is a sequence of one-character strings, so that          *)
(* checkCommandChars is computed character by character as the code does.  *)
EXTENDS Integers, Sequences, FiniteSets, TLC

VARIABLES sub, loggers, pre, last, CatchPanics, http

vars == <<sub, loggers, pre, last, CatchPanics, http>>

-----------------------------------------------------------------------------
(* Bounds of the model *)

\* most super commands registered at once
MaxSupers == 1
\* most commands registered at once, over all super commands
MaxEntries == 2
\* longest args list handed to Dispatch
MaxArgs == 1
\* longest commandAndArgs list handed to DispatchCombinedCommandAndArgs: a
\* super command, a command and MaxArgs arguments
MaxCombined == MaxArgs + 2

-----------------------------------------------------------------------------
(* Values *)

Default == <<>>

\* an error value: what it says, the name it is about, the error it wraps
Error(kind, name, cause) == [kind |-> kind, name |-> name, cause |-> cause]
Nil == Error("nil", <<>>, "-")
ErrNotFound == Error("command not found", <<>>, "-")
SuperCommandNotFound(superCommand) == Error("Super command not found", superCommand, "-")
Background == "context.Background"
ctxCanceled == "ctxCanceled"
Contexts == {Background, ctxCanceled}
NoCtx == "-"

\* the control character U+0001: neither space nor graphic
CtrlChar == "^A"
SpaceChars == {" ", "\t"}
NonGraphicChars == {"\t", CtrlChar}
InvalidChars == {"|", "&", ";", "(", ")", "<", ">"}

IsSpace(c) == c \in SpaceChars
IsGraphic(c) == c \notin NonGraphicChars

\* f names one of the two predicates of package unicode the code passes
Holds(f, c) == IF f = "unicode.IsSpace" THEN IsSpace(c) ELSE IsGraphic(c)

\* strings.IndexFunc(s, f): the first index whose character satisfies f, or -1
\* (0-based, as in Go)
IndexFunc(s, f) ==
    IF \E i \in 1..Len(s) : Holds(f, s[i])
    THEN (CHOOSE i \in 1..Len(s) :
            Holds(f, s[i]) /\ \A j \in 1..(i-1) : ~Holds(f, s[j])) - 1
    ELSE -1

ContainsAny(s, chars) == \E i \in 1..Len(s) : s[i] \in chars

\* faulty variant: the check for | & ; ( ) < > is left out
checkCommandCharsNoInvalid(command) ==
    IF IndexFunc(command, "unicode.IsSpace") >= 0 THEN Error("command contains space characters", command, "-")
    ELSE IF IndexFunc(command, "unicode.IsGraphic") = -1 THEN Error("command contains non graphc characters", command, "-")
    ELSE Nil

checkCommandChars(command) ==
    IF IndexFunc(command, "unicode.IsSpace") >= 0 THEN Error("command contains space characters", command, "-")
    ELSE IF IndexFunc(command, "unicode.IsGraphic") = -1 THEN Error("command contains non graphc characters", command, "-")
    ELSE IF ContainsAny(command, InvalidChars) THEN Error("command contains invalid characters", command, "-")
    ELSE Nil

-----------------------------------------------------------------------------
(* Inputs *)

ValidNames == {<<"a">>, <<"a", "a">>}
BadChars == SpaceChars \cup NonGraphicChars \cup InvalidChars
BadNames == {<<c>> : c \in BadChars}
            \cup {<<"a", " ">>, <<"\t", "a">>, <<"a", "|">>, <<">", "a">>,
                  <<CtrlChar, CtrlChar>>}
\* names offered to the registration operations
RegNames == {Default} \cup ValidNames \cup BadNames
\* names and arguments offered to the dispatch operations
DispatchNames == {Default} \cup ValidNames
ArgStrings == {<<"a">>}

SeqsUpTo(S, n) == UNION {[1..k -> S] : k \in 0..n}

\* (description, commandFunc, args) triples offered to registration; the last
\* one is a handler whose signature does not match the declared args
Registrations ==
    { [description |-> "d1", commandFunc |-> "fOk",  args |-> <<>>],
      [description |-> "d2", commandFunc |-> "fCtx", args |-> <<>>],
      [description |-> "d3", commandFunc |-> "fOk",  args |-> <<"x">>] }

\* (name, registration) pairs offered to AddCommand
RegInputs ==
    ({Default} \cup ValidNames) \X Registrations
    \cup BadNames \X {[description |-> "d1", commandFunc |-> "fOk", args |-> <<>>]}

\* number of string arguments each handler takes besides the context
FuncArity(commandFunc) == 0

LoggerLists == {<<>>, <<"L2", "L1">>}

-----------------------------------------------------------------------------
(* The argument binder and the bound invoker *)

\* GetStringArgsFunc: binds the handler to its argument schema once, or fails
GetStringArgsFunc(commandFunc, args) ==
    IF FuncArity(commandFunc) # Len(args)
    THEN [err |-> Error("binding error", <<>>, "-"), stringArgsFunc |-> Nil]
    ELSE [err |-> Nil,
          stringArgsFunc |-> [commandFunc |-> commandFunc, args |-> args]]

\* what a call of the bound invoker returns
CallStringArgsFunc(stringArgsFunc, ctx, args) ==
    IF Len(args) # Len(stringArgsFunc.args) THEN Error("argument count error", <<>>, "-")
    ELSE IF stringArgsFunc.commandFunc = "fCtx" /\ ctx = ctxCanceled THEN Error("context canceled", <<>>, "-")
    ELSE Nil

LogEvent(logger, command, args) ==
    [kind |-> "log", who |-> logger, command |-> command, ctx |-> NoCtx, args |-> args]

InvokeEvent(stringArgsFunc, ctx, args) ==
    [kind |-> "invoke", who |-> stringArgsFunc, command |-> NoCtx, ctx |-> ctx, args |-> args]

-----------------------------------------------------------------------------
(* StringArgsDispatcher: disp is [comm, loggers] *)

NewStringArgsDispatcher(lgs) == [comm |-> <<>>, loggers |-> lgs]

stringArgsCommand(command, description, commandFunc, args, stringArgsFunc) ==
    [command |-> command, description |-> description, args |-> args,
     commandFunc |-> commandFunc, stringArgsFunc |-> stringArgsFunc]

\* comm[command] = cmd
Put(comm, command, cmd) ==
    [c \in DOMAIN comm \cup {command} |-> IF c = command THEN cmd ELSE comm[c]]

AddCommand(disp, command, description, commandFunc, args) ==
    IF command \in DOMAIN disp.comm
    THEN [err |-> Error("already added", command, "-"), disp |-> disp]
    ELSE IF checkCommandChars(command) # Nil
    THEN [err |-> checkCommandChars(command), disp |-> disp]
    ELSE LET b == GetStringArgsFunc(commandFunc, args) IN
         IF b.err # Nil
         THEN [err |-> b.err, disp |-> disp]
         ELSE [err |-> Nil,
               disp |-> [disp EXCEPT !.comm = Put(@, command,
                           stringArgsCommand(command, description, commandFunc, args,
                                             b.stringArgsFunc))]]

AddDefaultCommand(disp, description, commandFunc, args) ==
    LET b == GetStringArgsFunc(commandFunc, args) IN
    IF b.err # Nil
    THEN [err |-> b.err, disp |-> disp]
    ELSE [err |-> Nil,
          disp |-> [disp EXCEPT !.comm = Put(@, Default,
                      stringArgsCommand(Default, description, commandFunc, args,
                                        b.stringArgsFunc))]]

HasCommnd(disp, command) == command \in DOMAIN disp.comm

HasDefaultCommnd(disp) == Default \in DOMAIN disp.comm

\* the notifications of all loggers, in the order of disp.loggers
LogAll(lgs, command, args) ==
    [i \in 1..Len(lgs) |-> LogEvent(lgs[i], command, args)]

IsPrefix(p, s) == Len(p) <= Len(s) /\ SubSeq(s, 1, Len(p)) = p

\* faulty variant: a command is found under any name it is a prefix of
DispatchByPrefix(disp, ctx, command, args) ==
    IF ~\E c \in DOMAIN disp.comm : IsPrefix(command, c)
    THEN [err |-> ErrNotFound, events |-> <<>>]
    ELSE LET cmd == disp.comm[CHOOSE c \in DOMAIN disp.comm : IsPrefix(command, c)] IN
         [err |-> CallStringArgsFunc(cmd.stringArgsFunc, ctx, args),
          events |-> LogAll(disp.loggers, command, args)
                     \o <<InvokeEvent(cmd.stringArgsFunc, ctx, args)>>]

\* faulty variant: the loggers are notified after the invocation
DispatchLogAfter(disp, ctx, command, args) ==
    IF command \notin DOMAIN disp.comm
    THEN [err |-> ErrNotFound, events |-> <<>>]
    ELSE LET cmd == disp.comm[command] IN
         [err |-> CallStringArgsFunc(cmd.stringArgsFunc, ctx, args),
          events |-> <<InvokeEvent(cmd.stringArgsFunc, ctx, args)>>
                     \o LogAll(disp.loggers, command, args)]

Dispatch(disp, ctx, command, args) ==
    IF command \notin DOMAIN disp.comm
    THEN [err |-> ErrNotFound, events |-> <<>>]
    ELSE LET cmd == disp.comm[command] IN
         [err |-> CallStringArgsFunc(cmd.stringArgsFunc, ctx, args),
          events |-> LogAll(disp.loggers, command, args)
                     \o <<InvokeEvent(cmd.stringArgsFunc, ctx, args)>>]

\* panics when Dispatch returns an error
MustDispatch(disp, ctx, command, args) ==
    LET r == Dispatch(disp, ctx, command, args) IN
    [panic |-> IF r.err # Nil THEN Error("panic: Command returned", command, r.err.kind)
               ELSE Nil,
     events |-> r.events]

DispatchDefaultCommand(disp) == Dispatch(disp, Background, Default, <<>>)

Tail2(s) == SubSeq(s, 3, Len(s))

DispatchCombinedCommandAndArgs(disp, ctx, commandAndArgs) ==
    IF Len(commandAndArgs) = 0
    THEN LET r == DispatchDefaultCommand(disp) IN
         [command |-> Default, err |-> r.err, events |-> r.events]
    ELSE LET command == commandAndArgs[1]
             args == Tail(commandAndArgs)
             r == Dispatch(disp, ctx, command, args) IN
         [command |-> command, err |-> r.err, events |-> r.events]

-----------------------------------------------------------------------------
(* SuperStringArgsDispatcher: the variables sub and loggers *)

\* subs[superCommand] = subDisp
PutSub(subs, superCommand, subDisp) ==
    [s \in DOMAIN subs \cup {superCommand} |->
        IF s = superCommand THEN subDisp ELSE subs[s]]

AddSuperCommand(subs, lgs, superCommand) ==
    IF superCommand # Default /\ checkCommandChars(superCommand) # Nil
    THEN [err |-> checkCommandChars(superCommand), sub |-> subs, subDisp |-> Nil]
    ELSE IF superCommand \in DOMAIN subs
    THEN [err |-> Error("super command already added", superCommand, "-"),
          sub |-> subs, subDisp |-> Nil]
    ELSE [err |-> Nil,
          sub |-> PutSub(subs, superCommand, NewStringArgsDispatcher(lgs)),
          subDisp |-> NewStringArgsDispatcher(lgs)]

\* the sub dispatcher is entered into sub before the handler is bound
SuperAddDefaultCommand(subs, lgs, description, commandFunc, args) ==
    LET r == AddSuperCommand(subs, lgs, Default) IN
    IF r.err # Nil
    THEN [err |-> r.err, sub |-> subs]
    ELSE LET d == AddDefaultCommand(r.subDisp, description, commandFunc, args) IN
         [err |-> d.err, sub |-> PutSub(r.sub, Default, d.disp)]

SuperHasCommnd(subs, superCommand) ==
    IF superCommand \notin DOMAIN subs THEN FALSE
    ELSE HasDefaultCommnd(subs[superCommand])

SuperHasSubCommnd(subs, superCommand, command) ==
    IF superCommand \notin DOMAIN subs THEN FALSE
    ELSE HasCommnd(subs[superCommand], command)

SuperDispatch(subs, ctx, superCommand, command, args) ==
    IF superCommand \notin DOMAIN subs
    THEN [err |-> SuperCommandNotFound(superCommand), events |-> <<>>]
    ELSE Dispatch(subs[superCommand], ctx, command, args)

SuperMustDispatch(subs, ctx, superCommand, command, args) ==
    LET r == SuperDispatch(subs, ctx, superCommand, command, args) IN
    [panic |-> IF r.err # Nil THEN Error("panic: Command", command, r.err.kind) ELSE Nil,
     events |-> r.events]

SuperDispatchDefaultCommand(subs) ==
    SuperDispatch(subs, Background, Default, Default, <<>>)

\* faulty variant: a registered sub command is preferred to the default command
SuperSplitSubCommandFirst(subs, commandAndArgs) ==
    IF Len(commandAndArgs) = 0
    THEN [superCommand |-> Default, command |-> Default, args |-> <<>>]
    ELSE IF Len(commandAndArgs) = 1
    THEN [superCommand |-> commandAndArgs[1], command |-> Default, args |-> <<>>]
    ELSE IF SuperHasCommnd(subs, commandAndArgs[1])
            /\ ~SuperHasSubCommnd(subs, commandAndArgs[1], commandAndArgs[2])
    THEN [superCommand |-> commandAndArgs[1], command |-> Default,
          args |-> Tail(commandAndArgs)]
    ELSE [superCommand |-> commandAndArgs[1], command |-> commandAndArgs[2],
          args |-> Tail2(commandAndArgs)]

\* the switch of DispatchCombinedCommandAndArgs
SuperSplit(subs, commandAndArgs) ==
    IF Len(commandAndArgs) = 0
    THEN [superCommand |-> Default, command |-> Default, args |-> <<>>]
    ELSE IF Len(commandAndArgs) = 1
    THEN [superCommand |-> commandAndArgs[1], command |-> Default, args |-> <<>>]
    ELSE IF commandAndArgs[1] \in DOMAIN subs /\ HasDefaultCommnd(subs[commandAndArgs[1]])
    THEN [superCommand |-> commandAndArgs[1], command |-> Default,
          args |-> Tail(commandAndArgs)]
    ELSE [superCommand |-> commandAndArgs[1], command |-> commandAndArgs[2],
          args |-> Tail2(commandAndArgs)]

SuperDispatchCombinedCommandAndArgs(subs, ctx, commandAndArgs) ==
    LET p == SuperSplit(subs, commandAndArgs)
        r == SuperDispatch(subs, ctx, p.superCommand, p.command, p.args) IN
    [superCommand |-> p.superCommand, command |-> p.command,
     err |-> r.err, events |-> r.events]

-----------------------------------------------------------------------------
(* The calls a program makes on the dispatchers.  last records the call and *)
(* what it returned, pre the registry the call started from.               *)

\* the (super command, command) pairs registered
Entries(subs) ==
    UNION {{<<s, c>> : c \in DOMAIN subs[s].comm} : s \in DOMAIN subs}

\* the registry stays within the bounds of the model
Fits(subs) ==
    /\ Cardinality(DOMAIN subs) <= MaxSupers
    /\ Cardinality(Entries(subs)) <= MaxEntries

NoHttp == [handler |-> "none"]

Init ==
    /\ sub = <<>>
    /\ loggers \in LoggerLists
    /\ pre = <<>>
    /\ last = [op |-> "none"]
    /\ CatchPanics = TRUE
    /\ http = NoHttp

\* the program makes one call at a time
Idle == last.op = "none"

Registered(subs, op, in, err) ==
    /\ Idle
    /\ Fits(subs)
    /\ sub' = subs
    /\ pre' = sub
    /\ last' = [op |-> op, in |-> in, err |-> err, events |-> <<>>]
    /\ UNCHANGED <<loggers, CatchPanics, http>>

Dispatched(op, in, out) ==
    /\ Idle
    /\ pre' = sub
    /\ last' = [op |-> op, in |-> in, out |-> out, err |-> out.err, events |-> out.events]
    /\ UNCHANGED <<sub, loggers, CatchPanics, http>>

CallAddSuperCommand ==
    \E superCommand \in RegNames :
        LET r == AddSuperCommand(sub, loggers, superCommand) IN
        Registered(r.sub, "AddSuperCommand", [superCommand |-> superCommand], r.err)

CallSuperAddDefaultCommand ==
    \E reg \in Registrations :
        LET r == SuperAddDefaultCommand(sub, loggers, reg.description,
                                        reg.commandFunc, reg.args) IN
        Registered(r.sub, "SuperAddDefaultCommand", [reg |-> reg], r.err)

CallAddCommand ==
    \E s \in DOMAIN sub, in \in RegInputs :
        LET command == in[1]
            reg == in[2]
            r == AddCommand(sub[s], command, reg.description, reg.commandFunc, reg.args) IN
        Registered(PutSub(sub, s, r.disp), "AddCommand",
                   [disp |-> s, command |-> command, reg |-> reg], r.err)

CallAddDefaultCommand ==
    \E s \in DOMAIN sub, reg \in Registrations :
        LET r == AddDefaultCommand(sub[s], reg.description, reg.commandFunc, reg.args) IN
        Registered(PutSub(sub, s, r.disp), "AddDefaultCommand",
                   [disp |-> s, command |-> Default, reg |-> reg], r.err)

CallDispatch ==
    \E s \in DOMAIN sub, ctx \in Contexts, command \in DispatchNames,
       args \in SeqsUpTo(ArgStrings, MaxArgs) :
        Dispatched("Dispatch",
                   [disp |-> s, ctx |-> ctx, command |-> command, args |-> args],
                   Dispatch(sub[s], ctx, command, args))

CallMustDispatch ==
    \E s \in DOMAIN sub, ctx \in Contexts, command \in DispatchNames,
       args \in SeqsUpTo(ArgStrings, MaxArgs) :
        LET r == MustDispatch(sub[s], ctx, command, args) IN
        Dispatched("MustDispatch",
                   [disp |-> s, ctx |-> ctx, command |-> command, args |-> args],
                   [err |-> r.panic, events |-> r.events])

CallDispatchDefaultCommand ==
    \E s \in DOMAIN sub :
        Dispatched("DispatchDefaultCommand", [disp |-> s],
                   DispatchDefaultCommand(sub[s]))

CallDispatchCombinedCommandAndArgs ==
    \E s \in DOMAIN sub, ctx \in Contexts,
       commandAndArgs \in SeqsUpTo(ArgStrings, MaxCombined) :
        Dispatched("DispatchCombinedCommandAndArgs",
                   [disp |-> s, ctx |-> ctx, commandAndArgs |-> commandAndArgs],
                   DispatchCombinedCommandAndArgs(sub[s], ctx, commandAndArgs))

CallSuperDispatch ==
    \E ctx \in Contexts, superCommand \in DispatchNames, command \in DispatchNames,
       args \in SeqsUpTo(ArgStrings, MaxArgs) :
        Dispatched("SuperDispatch",
                   [ctx |-> ctx, superCommand |-> superCommand, command |-> command,
                    args |-> args],
                   SuperDispatch(sub, ctx, superCommand, command, args))

CallSuperMustDispatch ==
    \E ctx \in Contexts, superCommand \in DispatchNames, command \in DispatchNames,
       args \in SeqsUpTo(ArgStrings, MaxArgs) :
        LET r == SuperMustDispatch(sub, ctx, superCommand, command, args) IN
        Dispatched("SuperMustDispatch",
                   [ctx |-> ctx, superCommand |-> superCommand, command |-> command,
                    args |-> args],
                   [err |-> r.panic, events |-> r.events])

CallSuperDispatchDefaultCommand ==
    Dispatched("SuperDispatchDefaultCommand", [ctx |-> NoCtx],
               SuperDispatchDefaultCommand(sub))

CallSuperDispatchCombinedCommandAndArgs ==
    \E ctx \in Contexts, commandAndArgs \in SeqsUpTo(ArgStrings, MaxCombined) :
        Dispatched("SuperDispatchCombinedCommandAndArgs",
                   [ctx |-> ctx, commandAndArgs |-> commandAndArgs],
                   SuperDispatchCombinedCommandAndArgs(sub, ctx, commandAndArgs))

\* the caller has read what the call returned
Return ==
    /\ ~Idle
    /\ last' = [op |-> "none"]
    /\ pre' = sub
    /\ UNCHANGED <<sub, loggers, CatchPanics, http>>

Next ==
    \/ CallAddSuperCommand
    \/ CallSuperAddDefaultCommand
    \/ CallAddCommand
    \/ CallAddDefaultCommand
    \/ CallDispatch
    \/ CallMustDispatch
    \/ CallDispatchDefaultCommand
    \/ CallDispatchCombinedCommandAndArgs
    \/ CallSuperDispatch
    \/ CallSuperMustDispatch
    \/ CallSuperDispatchDefaultCommand
    \/ CallSuperDispatchCombinedCommandAndArgs
    \/ Return

Spec == Init /\ [][Next]_vars

-----------------------------------------------------------------------------
(* The gorillamux HTTP adapter.  http records the last request served: what *)
(* the handler function did before its deferred function ran (events), what *)
(* the panic raised in it (raised), what the deferred function did         *)
(* (deferred) and the panic that left the handler (panic).                 *)

\* the results writers a handler is built with: none, and four plug-ins
NoWriter == "nil"
ResultsWriters == {NoWriter, "wPass", "wSwallow", "wFail", "wPanic"}
ErrHandlerLists == {<<>>, <<"H1">>, <<"H2", "H1">>}
\* what the command function does: return results, return an error, panic
CmdOutcomes == {"ok", "err", "panic"}
ErrCommand == Error("command error", <<>>, "-")
NoPanic == "no panic"

\* mux.Vars(request) and request.URL.Query()
PathVars == {<<>>, [id |-> <<"1">>]}
Queries == {<<>>, [id |-> <<"2", "3">>], [q |-> <<"">>], [q |-> <<"x">>]}
\* what bodyConverter.RequestBodyToArg returns
BodyArgs == { [name |-> "body", value |-> <<"v">>, err |-> Nil],
              [name |-> "id",   value |-> <<"v">>, err |-> Nil],
              [name |-> "",     value |-> <<>>,    err |-> Error("read error", <<>>, "-")] }

HttpEvent(kind, who, err, v) == [kind |-> kind, who |-> who, err |-> err, vars |-> v]

\* strings.Join(values, sep): a string is the sequence of its pieces
RECURSIVE Join(_, _)
Join(values, sep) ==
    IF Len(values) = 0 THEN <<>>
    ELSE IF Len(values) = 1 THEN <<values[1]>>
    ELSE <<values[1], sep>> \o Join(Tail(values), sep)

\* vars[k] = x
SetVar(v, k, x) == [n \in DOMAIN v \cup {k} |-> IF n = k THEN x ELSE v[n]]

\* the loop over request.URL.Query() of CommandHandlerWithQueryParams
RECURSIVE AddQueryParams(_, _, _)
AddQueryParams(v, query, keys) ==
    IF keys = {} THEN v
    ELSE LET k == CHOOSE x \in keys : TRUE
             v2 == IF Len(query[k]) > 0 /\ query[k][1] # ""
                   THEN SetVar(v, k, Join(query[k], ";"))
                   ELSE v
         IN AddQueryParams(v2, query, keys \ {k})

\* httperr.AsError(recover()): nil when nothing panicked
AsError(p) == IF p = NoPanic THEN Nil ELSE Error("panic", <<>>, p)

handleErr(err, errHandlers) ==
    IF err = Nil THEN <<>>
    ELSE IF Len(errHandlers) = 0 THEN <<HttpEvent("httperr.Handle", "httperr", err, <<>>)>>
    ELSE [i \in 1..Len(errHandlers) |-> HttpEvent("HandleError", errHandlers[i], err, <<>>)]

\* resultsWriter.WriteResults(args, vars, resultVals, err, writer, request) of
\* each plug-in: the error it returns, or the panic it raises
WriteResults(resultsWriter, resultErr) ==
    IF resultsWriter = "wPass" THEN [err |-> resultErr, panic |-> NoPanic]
    ELSE IF resultsWriter = "wSwallow" THEN [err |-> Nil, panic |-> NoPanic]
    ELSE IF resultsWriter = "wFail"
    THEN [err |-> Error("write error", <<>>, "-"), panic |-> NoPanic]
    ELSE [err |-> Nil, panic |-> "WriteResults panic"]

\* faulty variant: the error of the invocation goes to handleErr whatever
\* WriteResults returns
InvokeAndRespondIgnoringWriter(v, cmd, resultsWriter, errHandlers) ==
    LET call == <<HttpEvent("cmdFunc", "cmdFunc", Nil, v)>>
        err == IF cmd = "err" THEN ErrCommand ELSE Nil
        w == WriteResults(resultsWriter, err)
        wrote == <<HttpEvent("WriteResults", resultsWriter, err, v)>>
    IN IF cmd = "panic"
       THEN [events |-> call, panic |-> "command panic"]
       ELSE IF resultsWriter = NoWriter
       THEN [events |-> call \o handleErr(err, errHandlers), panic |-> NoPanic]
       ELSE IF w.panic # NoPanic
       THEN [events |-> call \o wrote, panic |-> w.panic]
       ELSE [events |-> call \o wrote \o handleErr(err, errHandlers), panic |-> NoPanic]

\* the part the three handlers share: call the command function, hand the
\* outcome to the results writer if there is one, hand the error to handleErr
InvokeAndRespond(v, cmd, resultsWriter, errHandlers) ==
    LET call == <<HttpEvent("cmdFunc", "cmdFunc", Nil, v)>>
        err == IF cmd = "err" THEN ErrCommand ELSE Nil
        w == WriteResults(resultsWriter, err)
        wrote == <<HttpEvent("WriteResults", resultsWriter, err, v)>>
    IN IF cmd = "panic"
       THEN [events |-> call, panic |-> "command panic"]
       ELSE IF resultsWriter = NoWriter
       THEN [events |-> call \o handleErr(err, errHandlers), panic |-> NoPanic]
       ELSE IF w.panic # NoPanic
       THEN [events |-> call \o wrote, panic |-> w.panic]
       ELSE [events |-> call \o wrote \o handleErr(w.err, errHandlers), panic |-> NoPanic]

\* faulty variant: the deferred function does not recover
DeferredNoRecover(catch, body, errHandlers) ==
    [events |-> body.events, raised |-> body.panic, deferred |-> <<>>,
     panic |-> body.panic]

\* the deferred function: with CatchPanics it recovers the panic, if any, and
\* hands it to handleErr; without, the panic leaves the handler
Deferred(catch, body, errHandlers) ==
    IF catch
    THEN [events |-> body.events, raised |-> body.panic,
          deferred |-> handleErr(AsError(body.panic), errHandlers),
          panic |-> NoPanic]
    ELSE [events |-> body.events, raised |-> body.panic, deferred |-> <<>>,
          panic |-> body.panic]

CommandHandler(catch, v, cmd, resultsWriter, errHandlers) ==
    Deferred(catch, InvokeAndRespond(v, cmd, resultsWriter, errHandlers), errHandlers)

CommandHandlerWithQueryParams(catch, v, query, cmd, resultsWriter, errHandlers) ==
    Deferred(catch,
             InvokeAndRespond(AddQueryParams(v, query, DOMAIN query), cmd,
                              resultsWriter, errHandlers),
             errHandlers)

CommandHandlerRequestBodyArg(catch, v, body, cmd, resultsWriter, errHandlers) ==
    Deferred(catch,
             IF body.err # Nil
             THEN [events |-> handleErr(body.err, errHandlers), panic |-> NoPanic]
             ELSE IF body.name \in DOMAIN v
             THEN [events |-> handleErr(Error("argument already set by request URL path",
                                              <<body.name>>, "-"), errHandlers),
                   panic |-> NoPanic]
             ELSE InvokeAndRespond(SetVar(v, body.name, body.value), cmd,
                                   resultsWriter, errHandlers),
             errHandlers)

HttpIdle == http.handler = "none"

Served(handler, in, out) ==
    /\ HttpIdle
    /\ http' = [handler |-> handler, in |-> in, catch |-> CatchPanics,
                events |-> out.events, raised |-> out.raised,
                deferred |-> out.deferred, panic |-> out.panic]
    /\ UNCHANGED <<sub, loggers, pre, last, CatchPanics>>

\* the program sets the package variable CatchPanics
SetCatchPanics ==
    /\ HttpIdle
    /\ CatchPanics' = ~CatchPanics
    /\ UNCHANGED <<sub, loggers, pre, last, http>>

ServeCommandHandler ==
    \E v \in PathVars, cmd \in CmdOutcomes, resultsWriter \in ResultsWriters,
       errHandlers \in ErrHandlerLists :
        Served("CommandHandler",
               [vars |-> v, cmd |-> cmd, resultsWriter |-> resultsWriter,
                errHandlers |-> errHandlers],
               CommandHandler(CatchPanics, v, cmd, resultsWriter, errHandlers))

ServeCommandHandlerWithQueryParams ==
    \E v \in PathVars, query \in Queries, cmd \in CmdOutcomes,
       resultsWriter \in ResultsWriters, errHandlers \in ErrHandlerLists :
        Served("CommandHandlerWithQueryParams",
               [vars |-> v, query |-> query, cmd |-> cmd,
                resultsWriter |-> resultsWriter, errHandlers |-> errHandlers],
               CommandHandlerWithQueryParams(CatchPanics, v, query, cmd, resultsWriter,
                                             errHandlers))

ServeCommandHandlerRequestBodyArg ==
    \E v \in PathVars, body \in BodyArgs, cmd \in CmdOutcomes,
       resultsWriter \in ResultsWriters, errHandlers \in ErrHandlerLists :
        Served("CommandHandlerRequestBodyArg",
               [vars |-> v, body |-> body, cmd |-> cmd,
                resultsWriter |-> resultsWriter, errHandlers |-> errHandlers],
               CommandHandlerRequestBodyArg(CatchPanics, v, body, cmd, resultsWriter,
                                            errHandlers))

\* the handler function has returned (or panicked) and the request is over
RequestDone ==
    /\ ~HttpIdle
    /\ http' = NoHttp
    /\ UNCHANGED <<sub, loggers, pre, last, CatchPanics>>

HttpNext ==
    \/ SetCatchPanics
    \/ ServeCommandHandler
    \/ ServeCommandHandlerWithQueryParams
    \/ ServeCommandHandlerRequestBodyArg
    \/ RequestDone

HttpSpec == Init /\ [][HttpNext]_vars

-----------------------------------------------------------------------------
(* Properties of the dispatchers *)

RegistrationOps ==
    {"AddCommand", "AddDefaultCommand", "AddSuperCommand", "SuperAddDefaultCommand"}

\* the events of the last call that are calls of a bound invoker
Invocations == SelectSeq(last.events, LAMBDA e : e.kind = "invoke")

HasWhitespace(name) == \E i \in 1..Len(name) : name[i] \in SpaceChars
HasInvalidChar(name) == \E i \in 1..Len(name) : name[i] \in InvalidChars
HasNoGraphic(name) == \A i \in 1..Len(name) : name[i] \in NonGraphicChars
NamingError(name) == HasWhitespace(name) \/ HasInvalidChar(name) \/ HasNoGraphic(name)

\* C1: AddCommand with a name that contains whitespace, one of | & ; ( ) < >
\* or no graphic character, and AddSuperCommand with such a non-empty name,
\* return an error and leave the registry as it was.
C1_BadNameRejected ==
    /\ (last.op = "AddCommand" /\ NamingError(last.in.command))
          => (last.err # Nil /\ sub = pre)
    /\ (last.op = "AddSuperCommand" /\ last.in.superCommand # Default
          /\ NamingError(last.in.superCommand))
          => (last.err # Nil /\ sub = pre)

C1_Witness ==
    /\ last.op = "AddCommand"
    /\ HasInvalidChar(last.in.command)
    /\ ~HasWhitespace(last.in.command)
    /\ Len(last.in.command) = 2
    /\ pre[last.in.disp].comm # <<>>
    /\ last.err # Nil

\* C2: once a name has an entry in a registry, every later registration under
\* that name (AddCommand, AddDefaultCommand, AddSuperCommand, the super
\* dispatcher's AddDefaultCommand) returns an error and the entry stays the
\* one of the first registration.
C2_SecondRegistrationFails ==
    /\ (last.op \in {"AddCommand", "AddDefaultCommand"}
          /\ last.in.command \in DOMAIN pre[last.in.disp].comm)
          => /\ last.err # Nil
             /\ sub[last.in.disp].comm[last.in.command]
                  = pre[last.in.disp].comm[last.in.command]
    /\ (last.op = "AddSuperCommand" /\ last.in.superCommand \in DOMAIN pre)
          => (last.err # Nil /\ sub = pre)
    /\ (last.op = "SuperAddDefaultCommand" /\ Default \in DOMAIN pre)
          => (last.err # Nil /\ sub = pre)

\* C3: a Dispatch whose lookup fails returns ErrNotFound (SuperCommandNotFound
\* for an unknown super command), notifies no logger, calls no invoker and
\* leaves the registry alone; a name is found only under that exact name.
C3_NotFoundIsSilent ==
    /\ (last.op = "Dispatch" /\ last.in.command \notin DOMAIN pre[last.in.disp].comm)
          => (last.err = ErrNotFound /\ last.events = <<>> /\ sub = pre)
    /\ (last.op = "Dispatch" /\ last.in.command \in DOMAIN pre[last.in.disp].comm)
          => /\ last.err # ErrNotFound
             /\ Len(Invocations) = 1
             /\ Invocations[1].who
                  = pre[last.in.disp].comm[last.in.command].stringArgsFunc
    /\ (last.op = "SuperDispatch" /\ last.in.superCommand \notin DOMAIN pre)
          => /\ last.err = SuperCommandNotFound(last.in.superCommand)
             /\ last.events = <<>>
             /\ sub = pre
    /\ (last.op = "SuperDispatch" /\ last.in.superCommand \in DOMAIN pre
          /\ last.in.command \notin DOMAIN pre[last.in.superCommand].comm)
          => (last.err = ErrNotFound /\ last.events = <<>> /\ sub = pre)

C3_Witness ==
    /\ last.op = "Dispatch"
    /\ last.in.command = <<"a">>
    /\ DOMAIN pre[last.in.disp].comm = {<<"a", "a">>}
    /\ loggers # <<>>
    /\ last.err = ErrNotFound

\* C4: a Dispatch of a registered command notifies every logger exactly once
\* with (command, args), in the order the loggers were given at construction,
\* then calls the command's bound invoker exactly once, whether or not the
\* invocation returns an error.
C4_LoggersThenInvoker ==
    (last.op = "Dispatch" /\ last.in.command \in DOMAIN pre[last.in.disp].comm)
      => /\ Len(last.events) = Len(loggers) + 1
         /\ \A i \in 1..Len(loggers) :
              last.events[i] = LogEvent(loggers[i], last.in.command, last.in.args)
         /\ last.events[Len(loggers) + 1]
              = InvokeEvent(pre[last.in.disp].comm[last.in.command].stringArgsFunc,
                            last.in.ctx, last.in.args)

C4_Witness ==
    /\ last.op = "Dispatch"
    /\ last.in.command \in DOMAIN pre[last.in.disp].comm
    /\ Len(loggers) = 2
    /\ last.in.args # <<>>
    /\ last.err # Nil

\* what a call returned and did, leaving out the context the invoker was given
Outcome(err, events) ==
    [err |-> err,
     notifications |-> SelectSeq(events, LAMBDA e : e.kind = "log"),
     invoked |-> [i \in DOMAIN SelectSeq(events, LAMBDA e : e.kind = "invoke") |->
                    SelectSeq(events, LAMBDA e : e.kind = "invoke")[i].who]]

\* C5: DispatchDefaultCommand() and DispatchCombinedCommandAndArgs(ctx, [])
\* return the same error, notify the loggers alike and call the same invoker
\* as often as Dispatch(ctx, "") without arguments.
C5_DefaultDispatchAsDispatch ==
    /\ last.op = "DispatchDefaultCommand"
          => Outcome(last.err, last.events)
               = LET r == Dispatch(pre[last.in.disp], Background, Default, <<>>)
                 IN Outcome(r.err, r.events)
    /\ (last.op = "DispatchCombinedCommandAndArgs" /\ last.in.commandAndArgs = <<>>)
          => Outcome(last.err, last.events)
               = LET r == Dispatch(pre[last.in.disp], last.in.ctx, Default, <<>>)
                 IN Outcome(r.err, r.events)
    /\ last.op = "SuperDispatchDefaultCommand"
          => Outcome(last.err, last.events)
               = LET r == SuperDispatch(pre, Background, Default, Default, <<>>)
                 IN Outcome(r.err, r.events)

\* C8: a dispatch operation that receives a context hands that context to the
\* bound invoker it calls.
C8_ContextPassedThrough ==
    last.op \in {"Dispatch", "MustDispatch", "DispatchCombinedCommandAndArgs",
                 "SuperDispatch", "SuperMustDispatch",
                 "SuperDispatchCombinedCommandAndArgs"}
      => \A i \in 1..Len(Invocations) : Invocations[i].ctx = last.in.ctx

\* C9: a registration that returns an error leaves the super commands and the
\* commands under each super command as they were.
C9_FailedRegistrationChangesNothing ==
    (last.op \in RegistrationOps /\ last.err # Nil) => sub = pre

\* C10: the super dispatcher's DispatchCombinedCommandAndArgs dispatches
\* (Default, Default) for the empty list, (element, Default) for one element,
\* and for more the default command of commandAndArgs[0] with
\* commandAndArgs[1:] when that super command has a default command, else
\* sub command commandAndArgs[1] with commandAndArgs[2:]; it returns the pair
\* it dispatched, and SuperCommandNotFound for an unknown super command.
C10_SuperSplit ==
    last.op = "SuperDispatchCombinedCommandAndArgs" =>
      LET l == last.in.commandAndArgs
          n == Len(l)
          S == IF n = 0 THEN Default ELSE l[1]
          useDefault == n < 2 \/ (l[1] \in DOMAIN pre /\ Default \in DOMAIN pre[l[1]].comm)
          C == IF useDefault THEN Default ELSE l[2]
          A == IF n < 2 THEN <<>>
               ELSE IF useDefault THEN SubSeq(l, 2, n) ELSE SubSeq(l, 3, n)
          r == SuperDispatch(pre, last.in.ctx, S, C, A)
      IN /\ last.out.superCommand = S
         /\ last.out.command = C
         /\ last.err = r.err
         /\ last.events = r.events
         /\ S \notin DOMAIN pre => last.err = SuperCommandNotFound(S)
         /\ sub = pre

C10_Witness ==
    /\ last.op = "SuperDispatchCombinedCommandAndArgs"
    /\ Len(last.in.commandAndArgs) = 3
    /\ last.in.commandAndArgs[1] \in DOMAIN pre
    /\ DOMAIN pre[last.in.commandAndArgs[1]].comm = {Default, last.in.commandAndArgs[2]}
    /\ last.out.command = Default
    /\ Len(Invocations) = 1
    /\ Len(Invocations[1].args) = 2

-----------------------------------------------------------------------------
(* Properties of the HTTP adapter *)

HttpServed == http.handler # "none"

\* everything the handler did, its deferred function included
AllHttpEvents == http.events \o http.deferred

ErrorHandlerEvents(events) ==
    SelectSeq(events, LAMBDA e : e.kind \in {"HandleError", "httperr.Handle"})

WriterEvents(events) == SelectSeq(events, LAMBDA e : e.kind = "WriteResults")

\* the command function was called and returned
InvocationReturned ==
    /\ HttpServed
    /\ \E i \in 1..Len(http.events) : http.events[i].kind = "cmdFunc"
    /\ http.in.cmd # "panic"

InvocationError == IF http.in.cmd = "err" THEN ErrCommand ELSE Nil

\* err delegated to the chain: every handler of errHandlers in order, or the
\* default httperr handler when there is none
Delegated(err, errHandlers) ==
    IF errHandlers = <<>>
    THEN <<HttpEvent("httperr.Handle", "httperr", err, <<>>)>>
    ELSE [i \in 1..Len(errHandlers) |-> HttpEvent("HandleError", errHandlers[i], err, <<>>)]

\* C6 as stated: whenever the invocation returns an error, that error is
\* delegated to the error handler chain; on success the results writer is
\* delegated to.
C6_InvocationErrorDelegated ==
    /\ (InvocationReturned /\ http.in.cmd = "err")
          => ErrorHandlerEvents(AllHttpEvents) = Delegated(ErrCommand, http.in.errHandlers)
    /\ (InvocationReturned /\ http.in.cmd = "ok" /\ http.in.resultsWriter # NoWriter)
          => Len(WriterEvents(http.events)) = 1

\* C6 amended: without a results writer the error of the invocation is
\* delegated to the error handler chain; with one, the writer is called once
\* for every invocation that returns, with the error of the invocation, and
\* the chain is handed the error WriteResults returns, if it returns one.
C6_WriterDecidesDelegation ==
    /\ (InvocationReturned /\ http.in.resultsWriter = NoWriter)
          => /\ WriterEvents(http.events) = <<>>
             /\ ErrorHandlerEvents(AllHttpEvents)
                  = IF InvocationError = Nil THEN <<>>
                    ELSE Delegated(InvocationError, http.in.errHandlers)
    /\ (InvocationReturned /\ http.in.resultsWriter # NoWriter)
          => LET w == WriteResults(http.in.resultsWriter, InvocationError) IN
             /\ Len(WriterEvents(http.events)) = 1
             /\ WriterEvents(http.events)[1].who = http.in.resultsWriter
             /\ WriterEvents(http.events)[1].err = InvocationError
             /\ w.panic = NoPanic
                  => ErrorHandlerEvents(AllHttpEvents)
                       = IF w.err = Nil THEN <<>>
                         ELSE Delegated(w.err, http.in.errHandlers)

C6_Witness ==
    /\ InvocationReturned
    /\ http.in.cmd = "err"
    /\ http.in.resultsWriter = "wSwallow"
    /\ Len(http.in.errHandlers) = 2
    /\ Len(WriterEvents(http.events)) = 1
    /\ ErrorHandlerEvents(AllHttpEvents) = <<>>

\* C7 as stated: with CatchPanics, no panic leaves the handler; a panic is
\* handed to handleErr; when the handler returns, the results writer or the
\* error handler chain has been invoked; without a panic the deferred
\* function invokes no error handler.
C7_PanicsRecoveredAlwaysResponds ==
    (HttpServed /\ http.catch)
      => /\ http.panic = NoPanic
         /\ http.raised # NoPanic
              => http.deferred = Delegated(AsError(http.raised), http.in.errHandlers)
         /\ \/ WriterEvents(http.events) # <<>>
            \/ ErrorHandlerEvents(AllHttpEvents) # <<>>
         /\ http.raised = NoPanic => http.deferred = <<>>

\* C7 amended: as stated, except that a request whose command succeeds while
\* the handler has no results writer invokes neither the results writer nor
\* the error handler chain; every other request invokes one of them.
C7_PanicsRecovered ==
    (HttpServed /\ http.catch)
      => /\ http.panic = NoPanic
         /\ http.raised # NoPanic
              => http.deferred = Delegated(AsError(http.raised), http.in.errHandlers)
         /\ IF InvocationReturned /\ http.in.cmd = "ok" /\ http.in.resultsWriter = NoWriter
            THEN WriterEvents(http.events) = <<>> /\ ErrorHandlerEvents(AllHttpEvents) = <<>>
            ELSE \/ WriterEvents(http.events) # <<>>
                 \/ ErrorHandlerEvents(AllHttpEvents) # <<>>
         /\ http.raised = NoPanic => http.deferred = <<>>

C7_Witness ==
    /\ HttpServed
    /\ http.catch
    /\ http.handler = "CommandHandlerRequestBodyArg"
    /\ http.in.resultsWriter = "wPanic"
    /\ http.raised # NoPanic
    /\ http.panic = NoPanic
    /\ Len(http.deferred) = 2

=============================================================================

